---- MODULE Spec2Model ----
(***************************************************************************)
(* Model of the healthscope controller (healthscope/src/main.rs):          *)
(* the aggregation loop, the aggregation gate, the status aggregator,      *)
(* the query fold and the HealthFuture completion-cell bridge.             *)
(***************************************************************************)
EXTENDS Integers, Sequences, FiniteSets, TLC

VARIABLES now, ns, scopes, instances, loop, lastAgg, stamped, envChanges,
          queries, cells, fnIn, fnOut

vars == <<now, ns, scopes, instances, loop, lastAgg, stamped, envChanges,
          queries, cells, fnIn, fnOut>>

(***************************************************************************)
(* Bounds of the model.  Time is counted in ticks, TicksPerSec ticks to    *)
(* the second, so that "whole seconds" differs from the exact duration.    *)
(***************************************************************************)
TicksPerSec == 2
MaxIterations == 2
MaxEnvChanges == 1
MaxQueries == 2
MaxComponents == 3
GateSpan == 16
MaxStampDelay == 1
MaxLoopQueries == 1

(* Program constants. *)
DEFAULT_PROBE_INTERVAL == 30
SLEEP_SECS == 5
CNT_MODULUS == 10

(***************************************************************************)
(* Option<T>: None is the empty tuple, Some(v) the one-element tuple.      *)
(***************************************************************************)
None == <<>>
Some(v) == <<v>>
IsSome(o) == o # <<>>
Unwrap(o) == o[1]
UnwrapOr(o, d) == IF o = <<>> THEN d ELSE o[1]

(***************************************************************************)
(* RFC3339 strings.  A string is modelled by its fields: a well-formed     *)
(* timestamp is <<whole seconds, sub-second ticks>>; anything else does    *)
(* not parse.  to_rfc3339 formats an instant (in ticks) and                *)
(* parse_from_rfc3339 reads one back.                                      *)
(***************************************************************************)
to_rfc3339(t) == <<t \div TicksPerSec, t % TicksPerSec>>

parse_from_rfc3339(s) ==
  IF Len(s) = 2 /\ s[1] >= 0 /\ s[2] >= 0 /\ s[2] < TicksPerSec
  THEN [ok |-> TRUE, val |-> s[1] * TicksPerSec + s[2]]
  ELSE [ok |-> FALSE, val |-> 0]

MalformedTimestamp == <<7>>

(* chrono::Duration::num_seconds: whole seconds, truncated toward zero. *)
num_seconds(d) == IF d >= 0 THEN d \div TicksPerSec ELSE 0 - ((0 - d) \div TicksPerSec)

(***************************************************************************)
(* time_to_aggregate (main.rs 318-339), with the wall clock read at line   *)
(* 333 passed as sys_time.                                                 *)
(***************************************************************************)
time_to_aggregate_strict(status, interval, sys_time) ==
  IF interval <= 0 THEN TRUE
  ELSE IF status = None \/ Unwrap(status).last_aggregate_timestamp = None THEN TRUE
  ELSE LET last_time == parse_from_rfc3339(Unwrap(Unwrap(status).last_aggregate_timestamp))
       IN IF ~last_time.ok THEN TRUE
          ELSE num_seconds(sys_time - last_time.val) > interval

(* Failing closed: a timestamp that does not parse is "not due". *)
time_to_aggregate_fail_closed(status, interval, sys_time) ==
  IF interval <= 0 THEN TRUE
  ELSE IF status = None \/ Unwrap(status).last_aggregate_timestamp = None THEN TRUE
  ELSE LET last_time == parse_from_rfc3339(Unwrap(Unwrap(status).last_aggregate_timestamp))
       IN IF ~last_time.ok THEN FALSE
          ELSE num_seconds(sys_time - last_time.val) >= interval

(* The elapsed-time test dropped: every scope with a timestamp is due. *)
time_to_aggregate_no_rate_limit(status, interval, sys_time) ==
  IF interval <= 0 THEN TRUE
  ELSE IF status = None \/ Unwrap(status).last_aggregate_timestamp = None THEN TRUE
  ELSE LET last_time == parse_from_rfc3339(Unwrap(Unwrap(status).last_aggregate_timestamp))
       IN IF ~last_time.ok THEN TRUE
          ELSE num_seconds(sys_time - last_time.val) >= 0

time_to_aggregate(status, interval, sys_time) ==
  IF interval <= 0 THEN TRUE
  ELSE IF status = None \/ Unwrap(status).last_aggregate_timestamp = None THEN TRUE
  ELSE LET last_time == parse_from_rfc3339(Unwrap(Unwrap(status).last_aggregate_timestamp))
       IN IF ~last_time.ok THEN TRUE
          ELSE num_seconds(sys_time - last_time.val) >= interval

(***************************************************************************)
(* The query fold of request_health (main.rs 232-244): the accumulator     *)
(* starts "healthy" and every component with a present status other than   *)
(* "healthy" sets it to "unhealthy".                                       *)
(***************************************************************************)
RECURSIVE for_each_component(_, _)
for_each_component(comps, health) ==
  IF comps = <<>> THEN health
  ELSE LET c == Head(comps)
       IN for_each_component(Tail(comps),
            IF IsSome(c.status) /\ Unwrap(c.status) # "healthy"
            THEN "unhealthy" ELSE health)

fold_health_absent_unhealthy(status) ==
  IF status = None THEN "healthy"
  ELSE IF Unwrap(status).components = None THEN "healthy"
  ELSE IF \E i \in 1..Len(Unwrap(Unwrap(status).components)) :
             Unwrap(Unwrap(status).components)[i].status # Some("healthy")
       THEN "unhealthy" ELSE "healthy"

(* "any" in place of "all": healthy as soon as one component is healthy. *)
fold_health_any_healthy(status) ==
  IF status = None THEN "healthy"
  ELSE IF Unwrap(status).components = None THEN "healthy"
  ELSE IF \E i \in 1..Len(Unwrap(Unwrap(status).components)) :
             Unwrap(Unwrap(status).components)[i].status = Some("healthy")
       THEN "healthy" ELSE "unhealthy"

fold_health(status) ==
  IF status = None THEN "healthy"
  ELSE IF Unwrap(status).components = None THEN "healthy"
  ELSE for_each_component(Unwrap(Unwrap(status).components), "healthy")

(***************************************************************************)
(* Names.  A request for an object is built from the namespace and the     *)
(* object's name (RawApi::list/get/patch return a Result); the build fails *)
(* when either is not usable in a request URI.                             *)
(***************************************************************************)
DEFAULT_NAMESPACE == "default"
BadNamespace == "bad ns"
BadName == "b ad"

UriSafe(s) == s \notin {BadNamespace, BadName}

build_request(namespace, name) == UriSafe(namespace) /\ UriSafe(name)

combine_name(name, instance_name) == <<name, instance_name>>

(***************************************************************************)
(* The store: scopes (HealthScopeObject) and component instances.          *)
(***************************************************************************)
ScopeNames == {"s1", "s2"}
ListOrder == <<"s1", "s2">>

Component(n, i, st) == [name |-> n, instance_name |-> i, status |-> st]

InstanceKeys == {combine_name("a", "inst1"), combine_name("b", "inst2")}

Instance(e, st) == [exists |-> e, status |-> st]

LiveStates == {Instance(TRUE, Some("healthy")), Instance(TRUE, Some("unhealthy")),
               Instance(TRUE, None), Instance(FALSE, None)}

(***************************************************************************)
(* get_health_from_component (main.rs 301-316), once its request is built: *)
(* a failed fetch and an instance without status both give "unhealthy".    *)
(***************************************************************************)
get_health_no_substitute(info) ==
  LET name == combine_name(info.name, info.instance_name)
  IN IF name \notin DOMAIN instances \/ ~instances[name].exists THEN "unknown"
     ELSE UnwrapOr(instances[name].status, "unhealthy")

get_health_from_component(info) ==
  LET name == combine_name(info.name, info.instance_name)
  IN IF name \notin DOMAIN instances \/ ~instances[name].exists THEN "unhealthy"
     ELSE UnwrapOr(instances[name].status, "unhealthy")

(* The request of get_health_from_component (main.rs 302-307, unwrapped). *)
build_component_request(namespace, info) ==
  UriSafe(namespace) /\ UriSafe(info.name) /\ UriSafe(info.instance_name)

(***************************************************************************)
(* aggregate_component_health (main.rs 247-299) on the listed snapshot     *)
(* `event`.  delay is the time between the gate's clock read (line 333)    *)
(* and the stamp (line 278); patch is the outcome of lines 285-290.  The   *)
(* result says what the call returned, which requests it issued, and the   *)
(* status it wrote, if any.                                                *)
(***************************************************************************)
SupportedProbe_any_status_endpoint(method, endpoint) == endpoint = ".status"

SupportedProbe_poll_status(method, endpoint) ==
  method = "poll-status" /\ endpoint = ".status"

(* The probe dispatch (main.rs 257-261, 293). *)
SupportedProbe(method, endpoint) == method = "kube-get" /\ endpoint = ".status"

PatchOutcomes == {"ok", "serialize_err", "request_err"}

(* The refreshed list built back to front. *)
RefreshedComponents_reversed(comps) ==
  [i \in 1..Len(comps) |->
     [comps[Len(comps) + 1 - i] EXCEPT
        !.status = Some(get_health_from_component(comps[Len(comps) + 1 - i]))]]

(* In-place refresh replaced by appending the refreshed entries. *)
RefreshedComponents_appended(comps) ==
  comps \o [i \in 1..Len(comps) |->
              [comps[i] EXCEPT !.status = Some(get_health_from_component(comps[i]))]]

RefreshedComponents(comps) ==
  [i \in 1..Len(comps) |->
     [comps[i] EXCEPT !.status = Some(get_health_from_component(comps[i]))]]

(* Index of the first component whose request cannot be built, 0 if none. *)
FirstUnbuildable(namespace, comps) ==
  IF \E i \in 1..Len(comps) : ~build_component_request(namespace, comps[i])
  THEN CHOOSE i \in 1..Len(comps) :
         /\ ~build_component_request(namespace, comps[i])
         /\ \A j \in 1..(i - 1) : build_component_request(namespace, comps[j])
  ELSE 0

GetRequests(comps, n) ==
  [i \in 1..n |-> <<"get", combine_name(comps[i].name, comps[i].instance_name)>>]

AggResult(res, err, reqs, wrote, stamp) ==
  [result |-> res, error |-> err, reqs |-> reqs, wrote |-> wrote, stamp |-> stamp]

aggregate_gate_after_dispatch(event, namespace, delay, patch) ==
  LET interval == UnwrapOr(event.spec.probe_interval, DEFAULT_PROBE_INTERVAL)
      old == IF event.status = None THEN None ELSE Unwrap(event.status).components
      comps == UnwrapOr(old, <<>>)
      bad == FirstUnbuildable(namespace, comps)
      components == IF old = None THEN None ELSE Some(RefreshedComponents(comps))
      status == Some([components |-> components,
                      last_aggregate_timestamp |-> Some(to_rfc3339(now + delay))])
      gets == GetRequests(comps, Len(comps))
  IN IF ~SupportedProbe(event.spec.probe_method, event.spec.probe_endpoint)
     THEN AggResult("UnsupportedProbe",
                    Some(<<"unknown probe-method", event.spec.probe_method,
                           "and probe_endpoint", event.spec.probe_endpoint>>),
                    <<>>, None, None)
     ELSE IF ~time_to_aggregate(event.status, interval, now)
     THEN AggResult("Ok", None, <<>>, None, None)
     ELSE IF bad # 0
     THEN AggResult("Panic", None, GetRequests(comps, bad - 1), None, None)
     ELSE IF patch = "serialize_err"
     THEN AggResult("SerializeErr", Some(<<"serialization failed">>), gets, None, None)
     ELSE IF ~build_request(namespace, event.name)
     THEN AggResult("BuildErr", Some(<<"request build failed">>), gets, None, None)
     ELSE IF patch = "request_err"
     THEN AggResult("PatchErr", Some(<<"patch failed">>),
                    Append(gets, <<"patch", event.name>>), None, None)
     ELSE AggResult("Ok", None, Append(gets, <<"patch", event.name>>),
                    status, Some(now + delay))

(* A failed patch request retried once inside the call. *)
aggregate_retry_patch(event, namespace, delay, patch) ==
  LET interval == UnwrapOr(event.spec.probe_interval, DEFAULT_PROBE_INTERVAL)
      old == IF event.status = None THEN None ELSE Unwrap(event.status).components
      comps == UnwrapOr(old, <<>>)
      bad == FirstUnbuildable(namespace, comps)
      components == IF old = None THEN None ELSE Some(RefreshedComponents(comps))
      status == Some([components |-> components,
                      last_aggregate_timestamp |-> Some(to_rfc3339(now + delay))])
      gets == GetRequests(comps, Len(comps))
  IN IF ~time_to_aggregate(event.status, interval, now)
     THEN AggResult("Ok", None, <<>>, None, None)
     ELSE IF ~SupportedProbe(event.spec.probe_method, event.spec.probe_endpoint)
     THEN AggResult("UnsupportedProbe",
                    Some(<<"unknown probe-method", event.spec.probe_method,
                           "and probe_endpoint", event.spec.probe_endpoint>>),
                    <<>>, None, None)
     ELSE IF bad # 0
     THEN AggResult("Panic", None, GetRequests(comps, bad - 1), None, None)
     ELSE IF patch = "serialize_err"
     THEN AggResult("SerializeErr", Some(<<"serialization failed">>), gets, None, None)
     ELSE IF ~build_request(namespace, event.name)
     THEN AggResult("BuildErr", Some(<<"request build failed">>), gets, None, None)
     ELSE IF patch = "request_err"
     THEN AggResult("PatchErr", Some(<<"patch failed">>),
                    gets \o <<(<<"patch", event.name>>), (<<"patch", event.name>>)>>,
                    None, None)
     ELSE AggResult("Ok", None, Append(gets, <<"patch", event.name>>),
                    status, Some(now + delay))

aggregate_component_health(event, namespace, delay, patch) ==
  LET interval == UnwrapOr(event.spec.probe_interval, DEFAULT_PROBE_INTERVAL)
      old == IF event.status = None THEN None ELSE Unwrap(event.status).components
      comps == UnwrapOr(old, <<>>)
      bad == FirstUnbuildable(namespace, comps)
      components == IF old = None THEN None ELSE Some(RefreshedComponents(comps))
      status == Some([components |-> components,
                      last_aggregate_timestamp |-> Some(to_rfc3339(now + delay))])
      gets == GetRequests(comps, Len(comps))
  IN IF ~time_to_aggregate(event.status, interval, now)
     THEN AggResult("Ok", None, <<>>, None, None)
     ELSE IF ~SupportedProbe(event.spec.probe_method, event.spec.probe_endpoint)
     THEN AggResult("UnsupportedProbe",
                    Some(<<"unknown probe-method", event.spec.probe_method,
                           "and probe_endpoint", event.spec.probe_endpoint>>),
                    <<>>, None, None)
     ELSE IF bad # 0
     THEN AggResult("Panic", None, GetRequests(comps, bad - 1), None, None)
     ELSE IF patch = "serialize_err"
     THEN AggResult("SerializeErr", Some(<<"serialization failed">>), gets, None, None)
     ELSE IF ~build_request(namespace, event.name)
     THEN AggResult("BuildErr", Some(<<"request build failed">>), gets, None, None)
     ELSE IF patch = "request_err"
     THEN AggResult("PatchErr", Some(<<"patch failed">>),
                    Append(gets, <<"patch", event.name>>), None, None)
     ELSE AggResult("Ok", None, Append(gets, <<"patch", event.name>>),
                    status, Some(now + delay))

(***************************************************************************)
(* Initial store contents.                                                 *)
(***************************************************************************)
T0 == DEFAULT_PROBE_INTERVAL * TicksPerSec

Scope(n, interval, method, endpoint, status) ==
  [name |-> n,
   spec |-> [probe_interval |-> interval, probe_method |-> method,
             probe_endpoint |-> endpoint],
   status |-> status]

Status(comps, ts) == [components |-> comps, last_aggregate_timestamp |-> ts]

ProbePairs == {<<"kube-get", ".status">>, <<"poll-status", ".status">>, <<"x", "y">>}

Intervals == {None, Some(10), Some(0)}

S1Components == <<Component("a", "inst1", None), Component("b", "inst2", None)>>

InitialTimestamps ==
  {None, Some(MalformedTimestamp),
   Some(to_rfc3339(T0 - 11 * TicksPerSec)),
   Some(to_rfc3339(T0 - DEFAULT_PROBE_INTERVAL * TicksPerSec + 1)),
   Some(to_rfc3339(T0 + 1))}

S1Statuses ==
  {None, Some(Status(None, None))}
    \cup {Some(Status(Some(S1Components), ts)) : ts \in InitialTimestamps}

S2Unsupported == Scope("s2", None, "x", "y", None)

S2Supported ==
  Scope("s2", Some(10), "kube-get", ".status",
        Some(Status(Some(<<Component("a", "inst1", Some("healthy"))>>), None)))

S2Unbuildable ==
  Scope("s2", Some(0), "kube-get", ".status",
        Some(Status(Some(<<Component("a", "inst1", None),
                           Component(BadName, "inst4", None)>>), None)))

Store(s1, s2) == [n \in ScopeNames |-> IF n = "s1" THEN s1 ELSE s2]

InitialStores ==
  {Store(Scope("s1", interval, pair[1], pair[2], st), S2Unsupported) :
     pair \in ProbePairs, interval \in Intervals, st \in S1Statuses}
  \cup
  {Store(Scope("s1", Some(10), "kube-get", ".status", st), s2) :
     st \in {None, Some(Status(Some(S1Components), None))},
     s2 \in {S2Supported, S2Unbuildable}}

InitialInstances ==
  [k \in InstanceKeys |->
     IF k = combine_name("b", "inst2") THEN Instance(TRUE, Some("unhealthy"))
     ELSE Instance(TRUE, Some("healthy"))]

NoAgg ==
  [scope |-> "", before |-> None, event |-> Scope("", None, "", "", None), at |-> 0,
   result |-> "none", error |-> None, reqs |-> <<>>, wrote |-> None, stamp |-> None,
   retry |-> FALSE]

(* patch_failed: the scopes whose latest call of aggregate failed at the    *)
(* patch request (history, not read by the loop).                          *)
InitLoop ==
  [pc |-> "list", items |-> <<>>, cnt |-> 0, iter |-> 0, log |-> <<>>,
   patch_failed |-> {}]

AggInit ==
  /\ now = T0
  /\ \/ ns = DEFAULT_NAMESPACE /\ scopes \in InitialStores
     \/ ns = BadNamespace
        /\ scopes = Store(Scope("s1", None, "kube-get", ".status", None), S2Supported)
  /\ instances = InitialInstances
  /\ loop = InitLoop
  /\ lastAgg = NoAgg
  /\ stamped = [n \in ScopeNames |-> None]
  /\ envChanges = 0
  /\ queries = <<>>
  /\ cells = <<>>
  /\ fnIn = <<>>
  /\ fnOut = <<>>

(***************************************************************************)
(* The aggregation loop (main.rs 64-92).                                   *)
(***************************************************************************)
(* Lines 73-75 and 83: build the list request, list the scopes. *)
LoopList ==
  /\ loop.pc = "list"
  /\ IF ~UriSafe(ns)
     THEN loop' = [loop EXCEPT !.pc = "exited", !.log = <<>>]
     ELSE \E ok \in BOOLEAN :
            loop' = IF ok
                    THEN [loop EXCEPT !.pc = "aggregate", !.log = <<>>,
                            !.items = [i \in 1..Len(ListOrder) |-> scopes[ListOrder[i]]]]
                    ELSE [loop EXCEPT !.pc = "sleep", !.log = <<"list">>]
  /\ UNCHANGED <<now, ns, scopes, instances, lastAgg, stamped, envChanges, queries,
                 cells, fnIn, fnOut>>

Patched_always(event, r) ==
  IF r.reqs = <<>> THEN scopes
  ELSE [scopes EXCEPT ![event.name] =
          [event EXCEPT !.status =
             Some(Status(IF event.status = None THEN None
                         ELSE Unwrap(event.status).components,
                         Some(to_rfc3339(now))))]]

(* The store applies a successful patch: the serialized event, whole. *)
Patched(event, r) ==
  IF r.wrote = None THEN scopes
  ELSE [scopes EXCEPT ![event.name] = [event EXCEPT !.status = r.wrote]]

(* Lines 76-81: one scope of the listed items is aggregated.  delay and    *)
(* patch are read only on the paths that use them, so they are fixed on    *)
(* the others.                                                             *)
LoopAggregate ==
  /\ loop.pc = "aggregate"
  /\ loop.items # <<>>
  /\ \E delay \in 0..MaxStampDelay, patch \in PatchOutcomes :
       LET event == Head(loop.items)
           r == aggregate_component_health(event, ns, delay, patch)
           rest == Tail(loop.items)
       IN /\ r.wrote = None => (delay = 0 /\ (r.reqs = <<>> => patch = "ok"))
          /\ scopes' = Patched(event, r)
          /\ now' = IF r.stamp = None THEN now ELSE Unwrap(r.stamp)
          /\ stamped' = IF r.wrote = None THEN stamped
                        ELSE [stamped EXCEPT ![event.name] = r.stamp]
          /\ lastAgg' = [scope |-> event.name, before |-> scopes[event.name].status,
                         event |-> event, at |-> now, result |-> r.result,
                         error |-> r.error, reqs |-> r.reqs, wrote |-> r.wrote,
                         stamp |-> r.stamp,
                         retry |-> event.name \in loop.patch_failed]
          /\ loop' = IF r.result = "Panic"
                     THEN [loop EXCEPT !.pc = "panicked"]
                     ELSE [loop EXCEPT
                             !.items = rest,
                             !.log = IF r.error = None THEN @ ELSE Append(@, event.name),
                             !.patch_failed = IF r.result = "PatchErr"
                                              THEN @ \cup {event.name}
                                              ELSE @ \ {event.name},
                             !.pc = IF rest = <<>> THEN "sleep" ELSE "aggregate"]
  /\ UNCHANGED <<ns, instances, envChanges, queries, cells, fnIn, fnOut>>

(* Lines 85-90: count the iteration and sleep. *)
LoopSleep ==
  /\ loop.pc = "sleep"
  /\ loop.iter < MaxIterations
  /\ loop' = [loop EXCEPT !.pc = "list", !.cnt = (@ + 1) % CNT_MODULUS,
                          !.iter = @ + 1, !.items = <<>>]
  /\ now' = now + SLEEP_SECS * TicksPerSec
  /\ UNCHANGED <<ns, scopes, instances, lastAgg, stamped, envChanges, queries,
                 cells, fnIn, fnOut>>

(* The platform changes a component instance. *)
EnvChange ==
  /\ envChanges < MaxEnvChanges
  /\ \E k \in InstanceKeys, v \in LiveStates :
       /\ v # instances[k]
       /\ instances' = [instances EXCEPT ![k] = v]
  /\ envChanges' = envChanges + 1
  /\ UNCHANGED <<now, ns, scopes, loop, lastAgg, stamped, queries, cells, fnIn, fnOut>>

AggNext == LoopList \/ LoopAggregate \/ LoopSleep \/ EnvChange

AggSpec == AggInit /\ [][AggNext]_vars

(***************************************************************************)
(* The query endpoint: serve_health, HealthFuture and its worker thread.   *)
(* cells is the heap of SharedState cells (Arc<Mutex<SharedState>>); a     *)
(* HealthFuture and its worker each hold a reference (an index) to one.    *)
(***************************************************************************)
Methods == {"GET", "POST"}
Paths == {<<"/", "s1">>, <<"/", "/", "nope">>}

RECURSIVE trim_start_matches(_, _)
trim_start_matches(path, ch) ==
  IF path # <<>> /\ Head(path) = ch THEN trim_start_matches(Tail(path), ch) ELSE path

InstanceOf(path) ==
  LET rest == trim_start_matches(path, "/") IN IF rest = <<>> THEN "" ELSE Head(rest)

NewSharedState == [completed |-> FALSE, resp |-> "", task |-> None]

NewCellRef_pooled == IF cells = <<>> THEN 1 ELSE Len(cells)

(* The cell a new HealthFuture refers to (main.rs 166-170): a fresh one. *)
NewCellRef == Len(cells) + 1

(* Routing by path: a GET for a path that names no scope is answered 404. *)
ServeHealth_route_by_path ==
  /\ Len(queries) < MaxQueries
  /\ \E method \in Methods, path \in Paths :
       IF method = "GET" /\ InstanceOf(path) \in ScopeNames
       THEN /\ cells' = Append(cells, NewSharedState)
            /\ queries' = Append(queries,
                 [method |-> method, instance |-> InstanceOf(path),
                  future |-> "created", shared_state |-> Len(cells) + 1,
                  worker |-> "running", thread_shared_state |-> Len(cells) + 1,
                  notified |-> FALSE, response |-> None])
       ELSE /\ cells' = cells
            /\ queries' = Append(queries,
                    [method |-> method, instance |-> "",
                     future |-> "ok", shared_state |-> 0,
                     worker |-> "none", thread_shared_state |-> 0,
                     notified |-> FALSE,
                     response |-> Some([status |-> 404, body |-> ""])])
  /\ UNCHANGED <<now, ns, scopes, instances, loop, lastAgg, stamped, envChanges,
                 fnIn, fnOut>>

(* serve_health (main.rs 200-212) with HealthFuture::new (165-194). *)
ServeHealth ==
  /\ Len(queries) < MaxQueries
  /\ \E method \in Methods, path \in Paths :
       IF method = "GET"
       THEN LET ref == NewCellRef
            IN /\ cells' = [i \in 1..(IF ref > Len(cells) THEN ref ELSE Len(cells)) |->
                              IF i = ref THEN NewSharedState ELSE cells[i]]
               /\ queries' = Append(queries,
                    [method |-> method, instance |-> InstanceOf(path),
                     future |-> "created", shared_state |-> ref,
                     worker |-> "running", thread_shared_state |-> ref,
                     notified |-> FALSE, response |-> None])
       ELSE /\ cells' = cells
            /\ queries' = Append(queries,
                    [method |-> method, instance |-> "",
                     future |-> "ok", shared_state |-> 0,
                     worker |-> "none", thread_shared_state |-> 0,
                     notified |-> FALSE,
                     response |-> Some([status |-> 404, body |-> ""])])
  /\ UNCHANGED <<now, ns, scopes, instances, loop, lastAgg, stamped, envChanges,
                 fnIn, fnOut>>

(* request_health (main.rs 215-245): the text it returns, or its error. *)
request_health(instance_name, fetched) ==
  IF ~build_request(ns, instance_name) THEN "error: request"
  ELSE IF ~fetched \/ instance_name \notin ScopeNames THEN "error: fetch"
  ELSE fold_health(scopes[instance_name].status)

Completed_resp_unset(cell, res) == [cell EXCEPT !.completed = TRUE]

(* The worker's completion step (main.rs 183-190), under the cell's lock. *)
Completed(cell, res) == [cell EXCEPT !.completed = TRUE, !.resp = res]

(* The worker thread (main.rs 174-191).  kubeconfig().unwrap() at line    *)
(* 218 panics when the configuration cannot be loaded.                    *)
WorkerOutcomes == {"config_err", "fetch_err", "fetched"}

WorkerRun(q) ==
  /\ q \in 1..Len(queries)
  /\ queries[q].worker = "running"
  /\ \E outcome \in WorkerOutcomes :
       IF outcome = "config_err"
       THEN /\ queries' = [queries EXCEPT ![q].worker = "panicked"]
            /\ cells' = cells
       ELSE LET ref == queries[q].thread_shared_state
                res == request_health(queries[q].instance, outcome = "fetched")
            IN /\ cells' = [cells EXCEPT ![ref] = Completed(@, res)]
               /\ queries' = [p \in 1..Len(queries) |->
                    IF p = q
                    THEN [queries[p] EXCEPT
                            !.worker = "done",
                            !.notified = @ \/ cells[ref].task = Some(q)]
                    ELSE IF cells[ref].task = Some(p)
                         THEN [queries[p] EXCEPT !.notified = TRUE]
                         ELSE queries[p]]
  /\ UNCHANGED <<now, ns, scopes, instances, loop, lastAgg, stamped, envChanges,
                 fnIn, fnOut>>

(* A poll that returns NotReady without storing its task in the cell. *)
Poll_no_register(q) ==
  /\ q \in 1..Len(queries)
  /\ \/ queries[q].future = "created"
     \/ queries[q].future = "notready" /\ queries[q].notified
  /\ LET ref == queries[q].shared_state
     IN IF cells[ref].completed
        THEN /\ queries' = [queries EXCEPT
                  ![q].future = "ready", ![q].notified = FALSE,
                  ![q].response = Some([status |-> 200, body |-> cells[ref].resp])]
             /\ cells' = cells
        ELSE /\ queries' = [queries EXCEPT ![q].future = "notready",
                                           ![q].notified = FALSE]
             /\ cells' = cells
  /\ UNCHANGED <<now, ns, scopes, instances, loop, lastAgg, stamped, envChanges,
                 fnIn, fnOut>>

(* HealthFuture::poll (main.rs 146-157), under the cell's lock.  The       *)
(* executor polls a future once when it is created and again each time     *)
(* its task is notified.                                                    *)
Poll(q) ==
  /\ q \in 1..Len(queries)
  /\ \/ queries[q].future = "created"
     \/ queries[q].future = "notready" /\ queries[q].notified
  /\ LET ref == queries[q].shared_state
     IN IF cells[ref].completed
        THEN /\ queries' = [queries EXCEPT
                  ![q].future = "ready", ![q].notified = FALSE,
                  ![q].response = Some([status |-> 200, body |-> cells[ref].resp])]
             /\ cells' = cells
        ELSE /\ queries' = [queries EXCEPT ![q].future = "notready",
                                           ![q].notified = FALSE]
             /\ cells' = [cells EXCEPT ![ref].task = Some(q)]
  /\ UNCHANGED <<now, ns, scopes, instances, loop, lastAgg, stamped, envChanges,
                 fnIn, fnOut>>

QueryNext == ServeHealth \/ (\E q \in 1..MaxQueries : WorkerRun(q) \/ Poll(q))

(***************************************************************************)
(* Specifications.                                                         *)
(*   Spec      the controller, loop and queries, over fixed instances      *)
(*             (the end-to-end scenario of scope s1).                      *)
(*   AggSpec   the aggregation loop over every initial store, with the     *)
(*             platform changing the component instances.                  *)
(*   QuerySpec the query endpoint over a store that does not change.       *)
(*   FnSpec    the two pure functions applied to drawn inputs.             *)
(***************************************************************************)
Init ==
  /\ now = T0
  /\ ns = DEFAULT_NAMESPACE
  /\ scopes = Store(Scope("s1", Some(10), "kube-get", ".status",
                          Some(Status(Some(S1Components), None))),
                    S2Unsupported)
  /\ instances = InitialInstances
  /\ loop = InitLoop
  /\ lastAgg = NoAgg
  /\ stamped = [n \in ScopeNames |-> None]
  /\ envChanges = 0
  /\ queries = <<>>
  /\ cells = <<>>
  /\ fnIn = <<>>
  /\ fnOut = <<>>

(* While the loop runs, at most MaxLoopQueries queries are served. *)
Next ==
  \/ LoopList
  \/ LoopAggregate
  \/ LoopSleep
  \/ (Len(queries) < MaxLoopQueries /\ ServeHealth)
  \/ (\E q \in 1..MaxQueries : WorkerRun(q) \/ Poll(q))

Spec == Init /\ [][Next]_vars

ComponentStatuses == {None, Some("healthy"), Some("unhealthy"), Some("degraded")}

QueryStores ==
  {Store(Scope("s1", None, "kube-get", ".status", st), S2Unsupported) :
     st \in {None, Some(Status(None, None))}
            \cup {Some(Status(Some(<<Component("a", "inst1", x),
                                     Component("b", "inst2", Some("healthy"))>>), None)) :
                    x \in ComponentStatuses}}

QueryInit ==
  /\ now = T0
  /\ ns \in {DEFAULT_NAMESPACE, BadNamespace}
  /\ scopes \in QueryStores
  /\ instances = InitialInstances
  /\ loop = InitLoop
  /\ lastAgg = NoAgg
  /\ stamped = [n \in ScopeNames |-> None]
  /\ envChanges = 0
  /\ queries = <<>>
  /\ cells = <<>>
  /\ fnIn = <<>>
  /\ fnOut = <<>>

QuerySpec == QueryInit /\ [][QueryNext]_vars

(* Inputs of the pure functions. *)
GateStatuses ==
  {None, Some(Status(None, None)), Some(Status(None, Some(MalformedTimestamp)))}
    \cup {Some(Status(None, Some(to_rfc3339(t)))) :
            t \in (T0 - GateSpan * TicksPerSec)..(T0 + TicksPerSec)}

GateInputs ==
  {[fn |-> "gate", status |-> st, interval |-> i, sys_time |-> T0] :
     st \in GateStatuses, i \in (0 - 1)..GateSpan}

ComponentLists ==
  UNION {[1..n -> {Component("c", "i", st) : st \in ComponentStatuses}] :
           n \in 0..MaxComponents}

FoldInputs ==
  {[fn |-> "fold", status |-> st] :
     st \in {None, Some(Status(None, None))}
            \cup {Some(Status(Some(cs), None)) : cs \in ComponentLists}}

FnInit ==
  /\ now = T0
  /\ ns = DEFAULT_NAMESPACE
  /\ scopes = Store(Scope("s1", None, "kube-get", ".status", None), S2Unsupported)
  /\ instances = InitialInstances
  /\ loop = InitLoop
  /\ lastAgg = NoAgg
  /\ stamped = [n \in ScopeNames |-> None]
  /\ envChanges = 0
  /\ queries = <<>>
  /\ cells = <<>>
  /\ fnIn \in GateInputs \cup FoldInputs
  /\ fnOut = None

ApplyGate ==
  /\ fnIn.fn = "gate"
  /\ fnOut = None
  /\ fnOut' = Some(time_to_aggregate(fnIn.status, fnIn.interval, fnIn.sys_time))
  /\ UNCHANGED <<now, ns, scopes, instances, loop, lastAgg, stamped, envChanges,
                 queries, cells, fnIn>>

ApplyFold ==
  /\ fnIn.fn = "fold"
  /\ fnOut = None
  /\ fnOut' = Some(fold_health(fnIn.status))
  /\ UNCHANGED <<now, ns, scopes, instances, loop, lastAgg, stamped, envChanges,
                 queries, cells, fnIn>>

FnNext == ApplyGate \/ ApplyFold

FnSpec == FnInit /\ [][FnNext]_vars

(***************************************************************************)
(* Properties.  The helpers below restate the documented behaviour         *)
(* independently of the operators that model the code.                     *)
(***************************************************************************)
WellFormedTimestamp(s) == Len(s) = 2 /\ s[1] >= 0 /\ s[2] \in 0..(TicksPerSec - 1)

InstantOf(s) == s[1] * TicksPerSec + s[2]

(* The documented gate: due for a non-positive interval, an absent status  *)
(* or timestamp, a timestamp that does not parse, or at least `interval`   *)
(* whole seconds elapsed.                                                  *)
DocumentedDue(status, interval, t) ==
  \/ interval <= 0
  \/ status = None
  \/ Unwrap(status).last_aggregate_timestamp = None
  \/ ~WellFormedTimestamp(Unwrap(Unwrap(status).last_aggregate_timestamp))
  \/ t - InstantOf(Unwrap(Unwrap(status).last_aggregate_timestamp))
       >= interval * TicksPerSec

EffectiveInterval(event) ==
  IF event.spec.probe_interval = None THEN 30 ELSE Unwrap(event.spec.probe_interval)

(* The last call of aggregate, as recorded in lastAgg. *)
Called == lastAgg.result # "none"
LastDue == DocumentedDue(lastAgg.event.status, EffectiveInterval(lastAgg.event), lastAgg.at)
LastPair == <<lastAgg.event.spec.probe_method, lastAgg.event.spec.probe_endpoint>>
LastComponents ==
  IF lastAgg.event.status = None THEN <<>>
  ELSE UnwrapOr(Unwrap(lastAgg.event.status).components, <<>>)

(* A step of the loop that calls aggregate on the head of the listed items. *)
AggregateStep == loop.pc = "aggregate" /\ loop' # loop

(* C1: time_to_aggregate returns true exactly when the interval is not     *)
(* positive, the status or its timestamp is absent, the timestamp does not *)
(* parse, or the whole seconds elapsed reach the interval; false in every  *)
(* other case, a timestamp in the future included.                         *)
C1_GateExact ==
  (fnIn # <<>> /\ fnIn.fn = "gate" /\ fnOut # None)
    => (Unwrap(fnOut) = DocumentedDue(fnIn.status, fnIn.interval, fnIn.sys_time))

(* 11 s old: interval 15 is not due. *)
C1_Witness ==
  /\ fnIn # <<>> /\ fnIn.fn = "gate"
  /\ fnIn.status = Some(Status(None, Some(to_rfc3339(fnIn.sys_time - 11 * TicksPerSec))))
  /\ fnIn.interval = 15
  /\ fnOut = Some(FALSE)

(* C2 as stated: a due scope declaring ("poll-status", ".status") takes    *)
(* the supported path and gets no UnsupportedProbe error.                  *)
C2_PollStatusSupported ==
  (Called /\ LastDue /\ LastPair = <<"poll-status", ".status">>)
    => lastAgg.result # "UnsupportedProbe"

(* C2 amended: ("kube-get", ".status") is the supported pair.  A due scope *)
(* declaring it never gets UnsupportedProbe, and when the call returns     *)
(* success it has fetched every listed component in order, then patched    *)
(* the scope: the store holds a present status for every component and     *)
(* the stamped lastAggregateTimestamp.                                     *)
C2_KubeGetSupported ==
  (Called /\ LastDue /\ LastPair = <<"kube-get", ".status">>)
    => /\ lastAgg.result # "UnsupportedProbe"
       /\ lastAgg.result = "Ok" =>
            /\ lastAgg.reqs =
                 [i \in 1..Len(LastComponents) |->
                    <<"get", combine_name(LastComponents[i].name,
                                          LastComponents[i].instance_name)>>]
                 \o <<(<<"patch", lastAgg.scope>>)>>
            /\ scopes[lastAgg.scope].status # None
            /\ LET st == Unwrap(scopes[lastAgg.scope].status)
               IN /\ st.last_aggregate_timestamp = Some(to_rfc3339(Unwrap(lastAgg.stamp)))
                  /\ Unwrap(lastAgg.stamp) >= lastAgg.at
                  /\ \A i \in 1..Len(LastComponents) :
                       Unwrap(st.components)[i].status # None

C2_Witness ==
  /\ Called /\ LastDue /\ LastPair = <<"kube-get", ".status">>
  /\ lastAgg.result = "Ok"
  /\ Len(LastComponents) = 2
  /\ Len(lastAgg.reqs) = 3

(* C3: a due scope whose probe pair is not the supported one gets an       *)
(* UnsupportedProbe error naming its method and endpoint; no request is    *)
(* issued and the stored status is exactly what it was before the call.    *)
C3_UnsupportedUntouched ==
  (Called /\ LastDue /\ LastPair # <<"kube-get", ".status">>)
    => /\ lastAgg.result = "UnsupportedProbe"
       /\ lastAgg.error # None
       /\ \E i, j \in 1..Len(Unwrap(lastAgg.error)) :
            /\ Unwrap(lastAgg.error)[i] = lastAgg.event.spec.probe_method
            /\ Unwrap(lastAgg.error)[j] = lastAgg.event.spec.probe_endpoint
            /\ i < j
       /\ lastAgg.reqs = <<>>
       /\ lastAgg.wrote = None
       /\ scopes[lastAgg.scope].status = lastAgg.before

C3_Witness ==
  /\ Called /\ LastDue /\ LastPair = <<"x", "y">>
  /\ lastAgg.scope = "s1"
  /\ lastAgg.before # None
  /\ Unwrap(lastAgg.before).last_aggregate_timestamp # None
  /\ lastAgg.result = "UnsupportedProbe"

(* C4: when the gate says not due (probeInterval, or 30 when unset) the    *)
(* call returns success and issues no request; the stored scopes and the   *)
(* component instances are unchanged, whatever the probe pair.             *)
C4_NotDueNoIO ==
  [][(AggregateStep
        /\ ~DocumentedDue(Head(loop.items).status,
                          EffectiveInterval(Head(loop.items)), now))
       => /\ lastAgg'.result = "Ok"
          /\ lastAgg'.error = None
          /\ lastAgg'.reqs = <<>>
          /\ scopes' = scopes
          /\ instances' = instances
          /\ loop'.pc # "panicked"]_vars

(* Not due under the default interval, with an unsupported pair. *)
C4_Witness ==
  /\ Called /\ ~LastDue
  /\ lastAgg.event.spec.probe_interval = None
  /\ LastPair = <<"x", "y">>
  /\ lastAgg.result = "Ok"
  /\ lastAgg.reqs = <<>>

(* The status the documentation expects for a component: the live status   *)
(* of its instance, "unhealthy" when the fetch fails or there is none.     *)
ExpectedStatus(c) ==
  LET k == combine_name(c.name, c.instance_name)
  IN IF k \in DOMAIN instances /\ instances[k].exists /\ instances[k].status # None
     THEN Unwrap(instances[k].status) ELSE "unhealthy"

C6_LoopNeverExits == loop.pc \in {"list", "aggregate", "sleep"}

(* C7: request_health folds to "unhealthy" iff some component has a        *)
(* present status other than "healthy", else "healthy" (absent statuses,   *)
(* an absent status or component list count as healthy), whatever the      *)
(* order of the components.                                                *)
IndexPermutations(n) == {f \in [1..n -> 1..n] : \A i, j \in 1..n : f[i] = f[j] => i = j}

C7_FoldExact ==
  (fnIn # <<>> /\ fnIn.fn = "fold" /\ fnOut # None)
    => LET comps == IF fnIn.status = None THEN <<>>
                    ELSE UnwrapOr(Unwrap(fnIn.status).components, <<>>)
           bad == \E i \in 1..Len(comps) :
                    comps[i].status # None /\ comps[i].status # Some("healthy")
       IN /\ Unwrap(fnOut) = (IF bad THEN "unhealthy" ELSE "healthy")
          /\ \A f \in IndexPermutations(Len(comps)) :
               fold_health(Some(Status(Some([i \in 1..Len(comps) |-> comps[f[i]]]), None)))
                 = Unwrap(fnOut)

(* A component without status among healthy ones folds to "healthy". *)
C7_Witness ==
  /\ fnIn # <<>> /\ fnIn.fn = "fold" /\ fnOut = Some("healthy")
  /\ fnIn.status # None /\ Unwrap(fnIn.status).components # None
  /\ LET comps == Unwrap(Unwrap(fnIn.status).components)
     IN /\ Len(comps) = 3
        /\ comps[1].status = Some("healthy")
        /\ comps[2].status = None
        /\ comps[3].status = Some("healthy")

(* C8: every GET query runs to completion: in no reachable state is a GET  *)
(* query without a response while neither its worker nor its future can    *)
(* take a step.                                                            *)
C8_EveryQueryCompletes ==
  \A q \in 1..Len(queries) :
    queries[q].method = "GET"
      => \/ queries[q].response # None
         \/ ENABLED WorkerRun(q)
         \/ ENABLED Poll(q)

(* C9: each GET query has its own, freshly created completion cell, held   *)
(* by its future and its worker and by no other query; whatever the other  *)
(* workers do (blocked, dead), a running worker can complete, a future due *)
(* for a poll can be polled, and the aggregation loop can take its step.   *)
C9_QueriesIndependent ==
  /\ \A q \in 1..Len(queries) :
       queries[q].method = "GET"
         => /\ queries[q].shared_state \in 1..Len(cells)
            /\ queries[q].thread_shared_state = queries[q].shared_state
            /\ \A p \in 1..Len(queries) :
                 (p # q /\ queries[p].method = "GET")
                   => queries[p].shared_state # queries[q].shared_state
            /\ cells[queries[q].shared_state].completed => queries[q].worker = "done"
            /\ queries[q].worker = "running" => ENABLED WorkerRun(q)
            /\ (queries[q].future = "created"
                  \/ (queries[q].future = "notready" /\ queries[q].notified))
                 => ENABLED Poll(q)
  /\ Len(cells) = Cardinality({q \in 1..Len(queries) : queries[q].method = "GET"})
  /\ loop.pc = "list" => ENABLED LoopList

(* One query answered while the other's worker has not finished. *)
C9_Witness ==
  /\ Len(queries) = 2
  /\ queries[1].method = "GET" /\ queries[2].method = "GET"
  /\ queries[1].instance # queries[2].instance
  /\ queries[1].worker \in {"running", "panicked"}
  /\ queries[1].response = None
  /\ queries[2].response # None
  /\ Unwrap(queries[2].response).status = 200

(* C10: a timestamp written by the loop is the one stamped by the most     *)
(* recent aggregation of that scope whose patch succeeded; a call that is  *)
(* skipped by the gate, fails with UnsupportedProbe or fails to patch      *)
(* leaves the stored status as it was; a present timestamp is never        *)
(* removed.                                                                *)
StoredTimestamp(store, n) ==
  IF store[n].status = None THEN None
  ELSE Unwrap(store[n].status).last_aggregate_timestamp

C10_TimestampIsLastSuccess ==
  [][\A n \in ScopeNames :
       /\ stamped'[n] # None
            => StoredTimestamp(scopes', n) = Some(to_rfc3339(Unwrap(stamped'[n])))
       /\ (AggregateStep /\ Head(loop.items).name = n /\ stamped'[n] # None
             /\ lastAgg'.result = "Ok" /\ lastAgg'.reqs # <<>>)
            => /\ Unwrap(stamped'[n]) >= now
               /\ Unwrap(stamped'[n]) <= now'
       /\ (AggregateStep /\ (lastAgg'.result # "Ok" \/ lastAgg'.reqs = <<>>))
            => scopes'[n] = scopes[n]
       /\ ~AggregateStep => scopes'[n] = scopes[n]
       /\ StoredTimestamp(scopes, n) # None => StoredTimestamp(scopes', n) # None]_vars

(* A patch of s1 failed after an earlier one had succeeded. *)
C10_Witness ==
  /\ stamped["s1"] # None
  /\ lastAgg.scope = "s1"
  /\ lastAgg.result = "PatchErr"
  /\ lastAgg.at > Unwrap(stamped["s1"])
  /\ StoredTimestamp(scopes, "s1") = Some(to_rfc3339(Unwrap(stamped["s1"])))

(* The component list stored for scope n, <<>> when there is none. *)
StoredComponents(store, n) ==
  IF store[n].status = None THEN <<>>
  ELSE UnwrapOr(Unwrap(store[n].status).components, <<>>)

(* The live statuses are what they were at the previous successful         *)
(* aggregation of n: either no instance has changed since the start, or    *)
(* every stored verdict is the one the present instances give.             *)
SameLiveStatuses(n) ==
  \/ envChanges = 0
  \/ \A i \in 1..Len(StoredComponents(scopes, n)) :
       StoredComponents(scopes, n)[i].status
         = Some(ExpectedStatus(StoredComponents(scopes, n)[i]))

(* C11: aggregation is idempotent on the verdicts: when a scope that the   *)
(* loop has already patched is patched again while the live statuses of    *)
(* its component instances are the same, the second patch stores exactly   *)
(* the component list of the first, statuses included, and only            *)
(* lastAggregateTimestamp changes, to the later stamp.                     *)
C11_IdempotentVerdicts ==
  [][\A n \in ScopeNames :
       (AggregateStep /\ Head(loop.items).name = n /\ lastAgg'.wrote # None
          /\ stamped[n] # None /\ SameLiveStatuses(n))
         => /\ scopes'[n].status # None /\ scopes[n].status # None
            /\ Unwrap(scopes'[n].status).components = Unwrap(scopes[n].status).components
            /\ StoredTimestamp(scopes', n) = Some(to_rfc3339(Unwrap(stamped'[n])))
            /\ Unwrap(stamped'[n]) > Unwrap(stamped[n])
            /\ StoredTimestamp(scopes', n) # StoredTimestamp(scopes, n)
            /\ [scopes'[n] EXCEPT !.status = scopes[n].status] = scopes[n]]_vars

(* s1 patched a second time, ten seconds after the first, same verdicts. *)
C11_Witness ==
  /\ lastAgg.scope = "s1" /\ lastAgg.wrote # None
  /\ lastAgg.before # None
  /\ Unwrap(lastAgg.before).last_aggregate_timestamp # None
  /\ Unwrap(lastAgg.before).components = Unwrap(lastAgg.wrote).components
  /\ Len(StoredComponents(scopes, "s1")) = 2
  /\ StoredComponents(scopes, "s1")[2].status = Some("unhealthy")
  /\ loop.iter > 0
  /\ lastAgg.at >= T0 + loop.iter * SLEEP_SECS * TicksPerSec

(* The text request_health gives when its request cannot be built or fails. *)
QueryErrors == {"error: request", "error: fetch"}

(* The components the first pass is expected to store for s1. *)
S1Aggregated ==
  <<Component("a", "inst1", Some("healthy")), Component("b", "inst2", Some("unhealthy"))>>

(* The worker of query q completes in this step. *)
WorkerCompletes(q) ==
  /\ q \in 1..Len(queries)
  /\ queries[q].worker = "running"
  /\ queries'[q].worker = "done"

(* C12: end to end, for s1 (probeInterval 10, supported pair, never        *)
(* aggregated, components (a, inst1) healthy and (b, inst2) unhealthy):    *)
(* the first pass finds s1 due and, its patch succeeding, stores both      *)
(* components with their live statuses and the time of the aggregation as  *)
(* lastAggregateTimestamp; every query GET /s1 whose worker reads the      *)
(* store after that gets "unhealthy", and that is the body of its          *)
(* response, with status 200.                                              *)
C12_EndToEnd ==
  [][/\ (AggregateStep /\ Head(loop.items).name = "s1" /\ loop.iter = 0)
          => /\ lastAgg'.result \in {"Ok", "PatchErr", "SerializeErr"}
             /\ Len(lastAgg'.reqs) >= 2
             /\ lastAgg'.result = "Ok" =>
                  /\ stamped'["s1"] # None
                  /\ Unwrap(stamped'["s1"]) \in now..(now + MaxStampDelay)
     /\ stamped'["s1"] # None
          => /\ StoredComponents(scopes', "s1") = S1Aggregated
             /\ StoredTimestamp(scopes', "s1") = Some(to_rfc3339(Unwrap(stamped'["s1"])))
     /\ \A q \in 1..Len(queries) :
          /\ (WorkerCompletes(q) /\ queries[q].instance = "s1" /\ stamped["s1"] # None)
               => LET resp == cells'[queries[q].thread_shared_state].resp
                  IN resp \notin QueryErrors => resp = "unhealthy"
          /\ (queries[q].method = "GET" /\ queries[q].response = None
                /\ queries'[q].response # None)
               => queries'[q].response
                    = Some([status |-> 200, body |-> cells[queries[q].shared_state].resp])
    ]_vars

(* After the first pass, before the second, GET /s1 was answered "unhealthy". *)
C12_Witness ==
  /\ loop.iter = 0 /\ loop.pc = "sleep"
  /\ stamped["s1"] # None
  /\ StoredTimestamp(scopes, "s1") = Some(to_rfc3339(Unwrap(stamped["s1"])))
  /\ StoredComponents(scopes, "s1") = S1Aggregated
  /\ Len(queries) = 1
  /\ queries[1].method = "GET" /\ queries[1].instance = "s1"
  /\ queries[1].response = Some([status |-> 200, body |-> "unhealthy"])

(* C13: a request whose method is not GET is answered at once with 404 and *)
(* an empty body; it gets no worker and no completion cell, so nothing     *)
(* reads the store for it.  A GET, whatever its path, gets a worker and a  *)
(* cell, and its response, once there, has status 200.                     *)
C13_OnlyGetSpawns ==
  /\ \A q \in 1..Len(queries) :
       /\ queries[q].method # "GET"
            => /\ queries[q].response = Some([status |-> 404, body |-> ""])
               /\ queries[q].worker = "none"
               /\ queries[q].shared_state \notin 1..Len(cells)
               /\ queries[q].thread_shared_state \notin 1..Len(cells)
               /\ ~ENABLED WorkerRun(q)
               /\ ~ENABLED Poll(q)
       /\ queries[q].method = "GET"
            => /\ queries[q].worker \in {"running", "done", "panicked"}
               /\ queries[q].thread_shared_state \in 1..Len(cells)
               /\ queries[q].response # None => Unwrap(queries[q].response).status = 200
  /\ Cardinality({q \in 1..Len(queries) : queries[q].worker # "none"})
       = Cardinality({q \in 1..Len(queries) : queries[q].method = "GET"})
  /\ Len(cells) <= Cardinality({q \in 1..Len(queries) : queries[q].method = "GET"})

(* A POST answered 404 next to a GET for an unknown scope answered 200. *)
C13_Witness ==
  /\ Len(queries) = 2
  /\ queries[1].method = "POST"
  /\ queries[1].response = Some([status |-> 404, body |-> ""])
  /\ queries[2].method = "GET" /\ queries[2].instance = "nope"
  /\ queries[2].response # None
  /\ Unwrap(queries[2].response).status = 200
  /\ Len(cells) = 1

(* C14: a successful aggregation changes, in the stored scope, only the    *)
(* status of each component and lastAggregateTimestamp: the component      *)
(* list written has the length, the order and the (name, instanceName) of  *)
(* the list that was stored, the scope's name and spec and every other     *)
(* scope are untouched, and a scope whose status or component list was     *)
(* absent is patched with an absent component list and a timestamp.        *)
C14_PatchFrame ==
  [][\A n \in ScopeNames :
       (AggregateStep /\ Head(loop.items).name = n /\ lastAgg'.wrote # None)
         => LET old == IF scopes[n].status = None THEN None
                       ELSE Unwrap(scopes[n].status).components
                new == Unwrap(scopes'[n].status).components
            IN /\ scopes'[n].status # None
               /\ old = None => new = None
               /\ old # None =>
                    /\ new # None
                    /\ Len(Unwrap(new)) = Len(Unwrap(old))
                    /\ \A i \in 1..Len(Unwrap(old)) :
                         /\ Unwrap(new)[i].name = Unwrap(old)[i].name
                         /\ Unwrap(new)[i].instance_name = Unwrap(old)[i].instance_name
                         /\ DOMAIN Unwrap(new)[i] = DOMAIN Unwrap(old)[i]
               /\ StoredTimestamp(scopes', n) # None
               /\ DOMAIN Unwrap(scopes'[n].status) = {"components", "last_aggregate_timestamp"}
               /\ scopes'[n].name = scopes[n].name
               /\ scopes'[n].spec = scopes[n].spec
               /\ \A m \in ScopeNames \ {n} : scopes'[m] = scopes[m]]_vars

(* Two components with different names patched in place. *)
C14_Witness ==
  /\ lastAgg.wrote # None /\ lastAgg.before # None
  /\ Unwrap(lastAgg.before).components # None
  /\ Len(Unwrap(Unwrap(lastAgg.before).components)) = 2
  /\ Unwrap(Unwrap(lastAgg.wrote).components)[1].name = "a"
  /\ Unwrap(Unwrap(lastAgg.wrote).components)[2].name = "b"

(* The requests of the last call that are patch requests. *)
PatchAttempts(reqs) == {i \in 1..Len(reqs) : reqs[i][1] = "patch"}

(* What C15 says of the failing call: one patch attempt, an error handed   *)
(* to the loop, which logs it and goes on, the stored scopes unchanged and *)
(* the scope due from then on.                                             *)
PatchFailureHandled ==
  \A n \in ScopeNames :
    (AggregateStep /\ Head(loop.items).name = n /\ lastAgg'.result = "PatchErr")
      => /\ Cardinality(PatchAttempts(lastAgg'.reqs)) = 1
         /\ lastAgg'.reqs[Len(lastAgg'.reqs)] = <<"patch", n>>
         /\ lastAgg'.error # None
         /\ lastAgg'.wrote = None
         /\ loop'.log = Append(loop.log, n)
         /\ loop'.pc \in {"aggregate", "sleep"}
         /\ scopes' = scopes
         /\ \A k \in 0..(MaxIterations + 1) :
              DocumentedDue(scopes'[n].status, EffectiveInterval(scopes'[n]),
                            now + k * SLEEP_SECS * TicksPerSec)

(* The next call of aggregate on a scope whose patch failed finds it due   *)
(* and attempts the aggregation again.                                     *)
RetriedWhenCalled ==
  \A n \in ScopeNames :
    (AggregateStep /\ Head(loop.items).name = n /\ n \in loop.patch_failed)
      => /\ DocumentedDue(Head(loop.items).status,
                          EffectiveInterval(Head(loop.items)), now)
         /\ lastAgg'.result \in {"Ok", "PatchErr", "SerializeErr"}
         /\ lastAgg'.result = "Ok" => lastAgg'.wrote # None
         /\ lastAgg'.result # "SerializeErr" =>
              Cardinality(PatchAttempts(lastAgg'.reqs)) = 1

(* C15 as stated: after a failed patch the call has made one patch attempt *)
(* and returned an error, the stored status is unchanged and the scope     *)
(* still due, and the next iteration attempts its aggregation again: its   *)
(* list step hands the scope to aggregate, which takes the supported path. *)
C15_RetriedNextIteration ==
  [][/\ PatchFailureHandled
     /\ RetriedWhenCalled
     /\ (loop.pc = "list" /\ loop' # loop /\ loop.patch_failed # {})
          => /\ loop'.pc = "aggregate"
             /\ \A n \in loop.patch_failed :
                  \E i \in 1..Len(loop'.items) : loop'.items[i].name = n]_vars

(* C15 amended: after a failed patch the call has made one patch attempt   *)
(* and returned an error, the stored status is unchanged and the scope     *)
(* still due; the next call of aggregate on the scope, which the next      *)
(* iteration makes only when its list request succeeds, attempts the       *)
(* aggregation again.                                                      *)
C15_RetriedWhenNextListed ==
  [][PatchFailureHandled /\ RetriedWhenCalled]_vars

(* A patch that failed in one pass and succeeded when retried in a later. *)
C15_Witness ==
  /\ lastAgg.retry
  /\ lastAgg.result = "Ok" /\ lastAgg.wrote # None
  /\ loop.iter > 0
  /\ lastAgg.scope \notin loop.patch_failed
  /\ Len(lastAgg.reqs) = 3

(* The listed scope carries a timestamp that does not parse. *)
MalformedStamp(event) ==
  /\ event.status # None
  /\ Unwrap(event.status).last_aggregate_timestamp # None
  /\ ~WellFormedTimestamp(Unwrap(Unwrap(event.status).last_aggregate_timestamp))

(* C16: a malformed lastAggregateTimestamp does not wedge a scope.  A      *)
(* listed scope with the supported pair and a timestamp that does not      *)
(* parse is never skipped by the gate, whatever its interval: the call     *)
(* fetches its components and goes on to the patch; when the patch         *)
(* succeeds the stored timestamp is the well-formed stamp of that call.    *)
(* A timestamp the loop has written stays well-formed, and for a positive  *)
(* interval the gate then skips the scope exactly while less than the      *)
(* interval has elapsed since that stamp.                                  *)
C16_MalformedNeverWedges ==
  [][\A n \in ScopeNames :
       /\ (AggregateStep /\ Head(loop.items).name = n
             /\ MalformedStamp(Head(loop.items))
             /\ SupportedProbe(Head(loop.items).spec.probe_method,
                               Head(loop.items).spec.probe_endpoint))
            => /\ lastAgg'.result # "UnsupportedProbe"
               /\ lastAgg'.result = "Ok" => lastAgg'.wrote # None
               /\ Len(lastAgg'.reqs) >= Len(StoredComponents(scopes, n))
               /\ lastAgg'.wrote # None =>
                    /\ StoredTimestamp(scopes', n) # None
                    /\ WellFormedTimestamp(Unwrap(StoredTimestamp(scopes', n)))
                    /\ InstantOf(Unwrap(StoredTimestamp(scopes', n))) \in now..now'
       /\ stamped'[n] # None
            => /\ StoredTimestamp(scopes', n) # None
               /\ WellFormedTimestamp(Unwrap(StoredTimestamp(scopes', n)))
       /\ (AggregateStep /\ Head(loop.items).name = n /\ stamped[n] # None
             /\ EffectiveInterval(Head(loop.items)) > 0)
            => ((lastAgg'.result = "Ok" /\ lastAgg'.reqs = <<>>)
                  <=> now - Unwrap(stamped[n])
                        < EffectiveInterval(Head(loop.items)) * TicksPerSec)]_vars

(* s1, interval 10, stored with a malformed timestamp, has been patched. *)
C16_Witness ==
  /\ lastAgg.scope = "s1"
  /\ lastAgg.before # None
  /\ Unwrap(lastAgg.before).last_aggregate_timestamp = Some(MalformedTimestamp)
  /\ lastAgg.event.spec.probe_interval = Some(10)
  /\ lastAgg.wrote # None
  /\ StoredTimestamp(scopes, "s1") = Some(to_rfc3339(Unwrap(stamped["s1"])))
  /\ WellFormedTimestamp(Unwrap(StoredTimestamp(scopes, "s1")))

(* The texts the worker of query q can store: what request_health returns  *)
(* for its instance, the fetch succeeding or not.                          *)
WorkerResults(q) == {request_health(queries[q].instance, f) : f \in BOOLEAN}

(* C17: poll returns Ready only when the worker has set completed, and the *)
(* body is the result the worker stored: a completed cell never holds the  *)
(* initial empty resp; a poll of a cell that is not completed returns      *)
(* NotReady and leaves the query without response; completed is set by     *)
(* the worker's one completion step and is never reset.                    *)
C17_ReadyOnlyWhenCompleted ==
  [][/\ \A q \in 1..Len(queries') :
          queries'[q].method = "GET"
            => LET cell == cells'[queries'[q].shared_state]
               IN /\ cell.completed <=> queries'[q].worker = "done"
                  /\ cell.completed
                       => (cell.resp # "" /\ cell.resp \in WorkerResults(q)')
                  /\ ~cell.completed => (cell.resp = "" /\ queries'[q].response = None)
                  /\ queries'[q].future = "ready"
                       => /\ cell.completed
                          /\ queries'[q].response
                               = Some([status |-> 200, body |-> cell.resp])
     /\ \A q \in 1..Len(queries) :
          /\ (queries[q].method = "GET" /\ queries'[q].future # queries[q].future
                /\ ~cells[queries[q].shared_state].completed)
               => (queries'[q].future = "notready" /\ queries'[q].response = None)
          /\ (queries[q].method = "GET"
                /\ ~cells[queries[q].shared_state].completed
                /\ cells'[queries[q].shared_state].completed)
               => (queries[q].worker = "running" /\ queries'[q].worker = "done")
     /\ \A i \in 1..Len(cells) :
          cells[i].completed => (cells'[i].completed /\ cells'[i].resp = cells[i].resp)
    ]_vars

(* Polled NotReady first, then completed by the worker and polled Ready. *)
C17_Witness ==
  /\ Len(queries) >= 1
  /\ queries[1].method = "GET" /\ queries[1].instance = "s1"
  /\ queries[1].future = "ready"
  /\ cells[queries[1].shared_state].task = Some(1)
  /\ cells[queries[1].shared_state].completed
  /\ queries[1].response = Some([status |-> 200, body |-> "unhealthy"])

(* C18: no wake-up is lost.  A future whose last poll returned NotReady    *)
(* has its task registered in its cell, and registered it while the cell   *)
(* was not completed; when the worker completes the cell it notifies that  *)
(* task.  So no state has a completed cell, a future left at NotReady and  *)
(* no notification pending for it: such a future can always be polled.    *)
C18_NoLostWakeup ==
  \A q \in 1..Len(queries) :
    (queries[q].method = "GET" /\ queries[q].future = "notready")
      => LET cell == cells[queries[q].shared_state]
         IN /\ cell.task = Some(q)
            /\ queries[q].response = None
            /\ cell.completed => (queries[q].notified /\ ENABLED Poll(q))
            /\ queries[q].worker = "done" => cell.completed
            /\ (~cell.completed /\ queries[q].worker = "running") => ENABLED WorkerRun(q)
            /\ queries[q].notified => cell.completed

(* The worker completed after the poll had returned NotReady: the task is  *)
(* notified and the poll is due.                                           *)
C18_Witness ==
  /\ Len(queries) >= 1
  /\ queries[1].method = "GET"
  /\ queries[1].future = "notready"
  /\ queries[1].worker = "done"
  /\ cells[queries[1].shared_state].completed
  /\ cells[queries[1].shared_state].task = Some(1)
  /\ queries[1].notified

(* The names of the listed items still to be aggregated in this pass. *)
Pending(l) == {l.items[i].name : i \in 1..Len(l.items)}

(* C19: the gate rate-limits the write-backs.  For a scope with a positive *)
(* effective interval i (probeInterval, or 30 when unset), the stamp of a  *)
(* successful patch is at least i seconds after the stamp of the loop's    *)
(* previous successful patch of that scope.  A scope is patched at most    *)
(* once per iteration: each listed scope occurs once in the items, is      *)
(* dropped from them when aggregated, and the items are refilled only by   *)
(* the list step of the next iteration, after the sleep.                   *)
C19_RateLimited ==
  [][/\ \A n \in ScopeNames :
          (AggregateStep /\ Head(loop.items).name = n /\ lastAgg'.wrote # None
             /\ stamped[n] # None /\ EffectiveInterval(Head(loop.items)) > 0)
            => Unwrap(stamped'[n]) - Unwrap(stamped[n])
                 >= EffectiveInterval(Head(loop.items)) * TicksPerSec
     /\ \A n \in ScopeNames : stamped'[n] # stamped[n] =>
          (AggregateStep /\ Head(loop.items).name = n /\ lastAgg'.wrote # None)
     /\ AggregateStep =>
          /\ Cardinality(Pending(loop)) = Len(loop.items)
          /\ loop'.pc # "panicked" =>
               Pending(loop') = Pending(loop) \ {Head(loop.items).name}
     /\ (~AggregateStep /\ loop'.items # loop.items)
          => (loop.pc = "list" /\ loop.items = <<>>)
     /\ (loop.pc = "sleep" /\ loop'.pc # "sleep")
          => (now' - now = SLEEP_SECS * TicksPerSec /\ loop'.iter = loop.iter + 1)
    ]_vars

(* s1, interval 10: second successful patch, in the third pass. *)
C19_Witness ==
  /\ lastAgg.scope = "s1" /\ lastAgg.wrote # None
  /\ lastAgg.event.spec.probe_interval = Some(10)
  /\ lastAgg.before # None
  /\ Unwrap(lastAgg.before).last_aggregate_timestamp # None
  /\ WellFormedTimestamp(Unwrap(Unwrap(lastAgg.before).last_aggregate_timestamp))
  /\ InstantOf(Unwrap(Unwrap(lastAgg.before).last_aggregate_timestamp)) >= T0
  /\ Unwrap(stamped["s1"])
       - InstantOf(Unwrap(Unwrap(lastAgg.before).last_aggregate_timestamp))
       >= 10 * TicksPerSec
  /\ loop.iter = 2

(***************************************************************************)
(* The controller under the conditions of eventual consistency.  Every     *)
(* list and patch request succeeds; the platform changes instances only    *)
(* during the first pass, so that the passes left cover every interval of  *)
(* the initial stores; the loop thread is scheduled fairly and its sleep    *)
(* ends.                                                                    *)
(***************************************************************************)
LiveStores ==
  {Store(Scope("s1", Some(10), "kube-get", ".status", st), s2) :
     st \in {None, Some(Status(Some(S1Components), None))},
     s2 \in {S2Unsupported, S2Supported, S2Unbuildable}}

LiveInit ==
  /\ now = T0
  /\ ns = DEFAULT_NAMESPACE
  /\ scopes \in LiveStores
  /\ instances = InitialInstances
  /\ loop = InitLoop
  /\ lastAgg = NoAgg
  /\ stamped = [n \in ScopeNames |-> None]
  /\ envChanges = 0
  /\ queries = <<>>
  /\ cells = <<>>
  /\ fnIn = <<>>
  /\ fnOut = <<>>

LiveList == LoopList /\ loop'.log # <<"list">>

LiveAggregate == LoopAggregate /\ lastAgg'.result \notin {"PatchErr", "SerializeErr"}

LiveEnvChange == loop.iter = 0 /\ EnvChange

LiveServe == Len(queries) < MaxLoopQueries /\ ServeHealth

LiveNext ==
  \/ LiveList
  \/ LiveAggregate
  \/ LoopSleep
  \/ LiveEnvChange
  \/ LiveServe
  \/ (\E q \in 1..MaxQueries : WorkerRun(q) \/ Poll(q))

LiveSpec ==
  /\ LiveInit
  /\ [][LiveNext]_vars
  /\ WF_vars(LiveList)
  /\ WF_vars(LiveAggregate)
  /\ WF_vars(LoopSleep)

(* A scope the claim is about: it declares the supported pair and the get  *)
(* request of each of its components can be built.                         *)
Eligible(n) ==
  /\ SupportedProbe(scopes[n].spec.probe_method, scopes[n].spec.probe_endpoint)
  /\ \A i \in 1..Len(StoredComponents(scopes, n)) :
       build_component_request(ns, StoredComponents(scopes, n)[i])

(* The stored verdicts of n are the live statuses, and a query for n that  *)
(* fetches the scope gets "healthy" exactly when all of them are healthy.  *)
Consistent(n) ==
  /\ \A i \in 1..Len(StoredComponents(scopes, n)) :
       StoredComponents(scopes, n)[i].status
         = Some(ExpectedStatus(StoredComponents(scopes, n)[i]))
  /\ request_health(n, TRUE)
       = (IF \A i \in 1..Len(StoredComponents(scopes, n)) :
               ExpectedStatus(StoredComponents(scopes, n)[i]) = "healthy"
          THEN "healthy" ELSE "unhealthy")

(* C20: eventual consistency.  Once the live statuses have stopped         *)
(* changing, with list, get and patch requests succeeding, the loop fair   *)
(* and time advancing, every scope that declares the supported pair        *)
(* eventually, and from then on, stores for each listed component its      *)
(* instance's live status ("unhealthy" when there is none), and a query    *)
(* for it returns "healthy" exactly when all those statuses are healthy.   *)
C20_EventuallyConsistent ==
  <>[](\A n \in ScopeNames : Eligible(n) => Consistent(n))

====
